---- MODULE Spec2Model ----
(***************************************************************************)
(* Colonel Blotto equilibrium engine (src/main.py).                        *)
(*                                                                         *)
(* The script's numbers are Python ints and IEEE-754 binary64 floats.      *)
(* Every float operation of the script (true division, *, +, comparison)   *)
(* is modelled as the exact result rounded to 53 significant bits, round   *)
(* to nearest, ties to even.  Exact values are kept as arbitrary-size      *)
(* naturals (sequences of 15-bit limbs, least significant first) because   *)
(* a 53-bit significand does not fit a model-checker integer.              *)
(***************************************************************************)
EXTENDS Integers, Sequences, FiniteSets, TLC

\* ------------------------------------------------------------------------
\* Arbitrary-size naturals: <<>> is 0, no most-significant zero limb.
\* ------------------------------------------------------------------------
LimbBits == 15
Base == 2^LimbBits

RECURSIVE BigTrim(_)
BigTrim(a) ==
  IF a = <<>> THEN <<>>
  ELSE IF a[Len(a)] = 0 THEN BigTrim(SubSeq(a, 1, Len(a) - 1)) ELSE a

RECURSIVE BigFromInt(_)
BigFromInt(n) ==
  IF n = 0 THEN <<>> ELSE <<n % Base>> \o BigFromInt(n \div Base)

Limb(a, i) == IF i <= Len(a) THEN a[i] ELSE 0

RECURSIVE BigAddC(_, _, _, _)
BigAddC(a, b, i, c) ==
  IF i > Len(a) /\ i > Len(b)
  THEN (IF c = 0 THEN <<>> ELSE <<c>>)
  ELSE LET t == Limb(a, i) + Limb(b, i) + c
       IN  <<t % Base>> \o BigAddC(a, b, i + 1, t \div Base)

BigAdd(a, b) == BigAddC(a, b, 1, 0)

RECURSIVE BigSubB(_, _, _, _)
BigSubB(a, b, i, w) ==
  IF i > Len(a) THEN <<>>
  ELSE LET t == Limb(a, i) - Limb(b, i) - w
       IN  <<(t + Base) % Base>> \o BigSubB(a, b, i + 1, IF t < 0 THEN 1 ELSE 0)

\* a - b for a >= b
BigSub(a, b) == BigTrim(BigSubB(a, b, 1, 0))

RECURSIVE BigCmpAt(_, _, _)
BigCmpAt(a, b, i) ==
  IF i = 0 THEN 0
  ELSE IF a[i] < b[i] THEN -1
  ELSE IF a[i] > b[i] THEN 1
  ELSE BigCmpAt(a, b, i - 1)

\* -1, 0, 1 as a < b, a = b, a > b
BigCmp(a, b) ==
  IF Len(a) < Len(b) THEN -1
  ELSE IF Len(a) > Len(b) THEN 1
  ELSE BigCmpAt(a, b, Len(a))

RECURSIVE BigMulSmallC(_, _, _, _)
BigMulSmallC(a, s, i, c) ==
  IF i > Len(a)
  THEN (IF c = 0 THEN <<>> ELSE <<c>>)
  ELSE LET t == a[i] * s + c
       IN  <<t % Base>> \o BigMulSmallC(a, s, i + 1, t \div Base)

\* a * s for 0 <= s < Base
BigMulSmall(a, s) == IF s = 0 THEN <<>> ELSE BigMulSmallC(a, s, 1, 0)

BigShlLimbs(a, k) == IF a = <<>> THEN <<>> ELSE [i \in 1..k |-> 0] \o a

RECURSIVE BigMulAt(_, _, _)
BigMulAt(a, b, j) ==
  IF j > Len(b) THEN <<>>
  ELSE BigAdd(BigShlLimbs(BigMulSmall(a, b[j]), j - 1), BigMulAt(a, b, j + 1))

BigMul(a, b) == BigMulAt(a, b, 1)

RECURSIVE BigDivSmallAt(_, _, _, _)
BigDivSmallAt(a, s, i, r) ==
  IF i = 0 THEN [q |-> <<>>, r |-> r]
  ELSE LET cur  == r * Base + a[i]
           rest == BigDivSmallAt(a, s, i - 1, cur % s)
       IN  [q |-> rest.q \o <<cur \div s>>, r |-> rest.r]

\* floor(a / s) for 0 < s <= Base
BigDivSmall(a, s) == BigTrim(BigDivSmallAt(a, s, Len(a), 0).q)

\* a * 2^k
BigShl(a, k) ==
  BigShlLimbs(BigMulSmall(a, 2^(k % LimbBits)), k \div LimbBits)

\* floor(a / 2^k)
BigShr(a, k) ==
  IF k \div LimbBits >= Len(a) THEN <<>>
  ELSE BigDivSmall(SubSeq(a, (k \div LimbBits) + 1, Len(a)), 2^(k % LimbBits))

RECURSIVE BitLenSmall(_)
BitLenSmall(n) == IF n = 0 THEN 0 ELSE 1 + BitLenSmall(n \div 2)

BigBitLen(a) ==
  IF a = <<>> THEN 0 ELSE LimbBits * (Len(a) - 1) + BitLenSmall(a[Len(a)])

\* the largest d in lo..hi-1 with b * d <= r, where b * lo <= r < b * hi
RECURSIVE BigDigit(_, _, _, _)
BigDigit(r, b, lo, hi) ==
  IF hi - lo <= 1 THEN lo
  ELSE LET mid == (lo + hi) \div 2
       IN  IF BigCmp(BigMulSmall(b, mid), r) <= 0
           THEN BigDigit(r, b, mid, hi)
           ELSE BigDigit(r, b, lo, mid)

RECURSIVE BigDivAt(_, _, _, _)

\* the quotient limb d put after the limbs below it
BigDivPut(rest, d) == [q |-> rest.q \o <<d>>, r |-> rest.r]

\* the limb d of the quotient found for the running remainder cur
BigDivDigit(a, b, i, cur, d) ==
  BigDivPut(BigDivAt(a, b, i - 1, BigSub(cur, BigMulSmall(b, d))), d)

BigDivStep(a, b, i, cur) == BigDivDigit(a, b, i, cur, BigDigit(cur, b, 0, Base))

\* long division, one limb of the quotient per step, limb i downwards
BigDivAt(a, b, i, r) ==
  IF i = 0 THEN [q |-> <<>>, r |-> r]
  ELSE BigDivStep(a, b, i, BigTrim(<<a[i]>> \o r))

BigDivModSmall(qr) == [q |-> BigTrim(qr.q), r |-> BigFromInt(qr.r)]

BigDivModLong(qr) == [q |-> BigTrim(qr.q), r |-> qr.r]

\* [q, r] with a = q * b + r, 0 <= r < b, for b > 0
BigDivMod(a, b) ==
  IF Len(b) = 1
  THEN BigDivModSmall(BigDivSmallAt(a, b[1], Len(a), 0))
  ELSE BigDivModLong(BigDivAt(a, b, Len(a), <<>>))

\* the number of trailing zero bits of a > 0
RECURSIVE TrailingZerosSmall(_)
TrailingZerosSmall(n) == IF n % 2 = 1 THEN 0 ELSE 1 + TrailingZerosSmall(n \div 2)

RECURSIVE BigTrailingZeros(_, _)
BigTrailingZeros(a, i) ==
  IF a[i] = 0 THEN LimbBits + BigTrailingZeros(a, i + 1)
  ELSE TrailingZerosSmall(a[i])

\* ------------------------------------------------------------------------
\* Python floats: [neg, m, e] is (-1)^neg * m * 2^e, with m = 0 (and e = 0)
\* or m odd and of at most Precision bits.
\* ------------------------------------------------------------------------
Precision == 53

\* n * 2^e for n > 0 with z trailing zero bits
FloatStrip(neg, n, e, z) == [neg |-> neg, m |-> BigShr(n, z), e |-> e + z]

\* n * 2^e for n > 0 of at most Precision bits
FloatExact(neg, n, e) == FloatStrip(neg, n, e, BigTrailingZeros(n, 1))

\* whether the quotient q is rounded up: c compares what was cut off with
\* half a unit of q
FloatRoundsUp(q, c, sticky) == c > 0 \/ (c = 0 /\ (sticky \/ q[1] % 2 = 1))

\* n cut to its top Precision bits q = floor(n / 2^d), rounded
FloatRoundCut(n, d, q, sticky) ==
  IF FloatRoundsUp(q, BigCmp(BigSub(n, BigShl(q, d)), BigShl(<<1>>, d - 1)), sticky)
  THEN BigAdd(q, <<1>>)
  ELSE q

\* n of L > 0 bits
FloatRoundBits(neg, n, e, sticky, L) ==
  FloatExact(neg,
             IF L <= Precision THEN n
             ELSE FloatRoundCut(n, L - Precision, BigShr(n, L - Precision), sticky),
             IF L <= Precision THEN e ELSE e + (L - Precision))

\* The exact value n * 2^e (plus, with sticky, a positive amount below one
\* unit of n; then n has more than Precision bits) rounded to nearest, ties
\* to even.
FloatRound(neg, n, e, sticky) ==
  IF n = <<>> THEN [neg |-> neg, m |-> <<>>, e |-> 0]
  ELSE FloatRoundBits(neg, n, e, sticky, BigBitLen(n))

\* float(n) for an int n
FloatFromInt(n) ==
  FloatRound(n < 0, BigFromInt(IF n < 0 THEN -n ELSE n), 0, FALSE)

\* n / 2^k for ints n >= 0, k >= 0 (a float written in binary)
Dyadic(n, k) == FloatRound(FALSE, BigFromInt(n), -k, FALSE)

FloatIsZero(x) == x.m = <<>>

FloatNeg(x) == [x EXCEPT !.neg = ~x.neg]

FloatAbs(x) == [x EXCEPT !.neg = FALSE]

MinInt(a, b) == IF a < b THEN a ELSE b
MaxInt(a, b) == IF a > b THEN a ELSE b

\* -1, 0, 1 as |x| < |y|, |x| = |y|, |x| > |y|
\* for x, y nonzero whose top bits stand at tx and ty
FloatCmpTop(x, y, tx, ty, e) ==
  IF tx < ty THEN -1
  ELSE IF tx > ty THEN 1
  ELSE BigCmp(BigShl(x.m, x.e - e), BigShl(y.m, y.e - e))

FloatCmpMag(x, y) ==
  IF FloatIsZero(x) THEN (IF FloatIsZero(y) THEN 0 ELSE -1)
  ELSE IF FloatIsZero(y) THEN 1
  ELSE FloatCmpTop(x, y, x.e + BigBitLen(x.m), y.e + BigBitLen(y.m),
                   MinInt(x.e, y.e))

\* -1, 0, 1 as x < y, x == y, x > y  (-0.0 == 0.0)
FloatCmp(x, y) ==
  IF FloatIsZero(x) /\ FloatIsZero(y) THEN 0
  ELSE IF x.neg /\ ~y.neg THEN -1
  ELSE IF ~x.neg /\ y.neg THEN 1
  ELSE (IF x.neg THEN -1 ELSE 1) * FloatCmpMag(x, y)

FloatLt(x, y) == FloatCmp(x, y) < 0
FloatLe(x, y) == FloatCmp(x, y) <= 0
FloatEq(x, y) == FloatCmp(x, y) = 0

\* x + y for the significands nx, ny brought to the exponent e; c compares them
FloatAddAligned(x, y, e, nx, ny, c) ==
  FloatRound(IF x.neg = y.neg THEN x.neg
             ELSE IF c = 0 THEN FALSE
             ELSE IF c > 0 THEN x.neg
             ELSE y.neg,
             IF x.neg = y.neg THEN BigAdd(nx, ny)
             ELSE BigSub(IF c > 0 THEN nx ELSE ny, IF c > 0 THEN ny ELSE nx),
             e, FALSE)

FloatAddMag(x, y, e, nx, ny) == FloatAddAligned(x, y, e, nx, ny, BigCmp(nx, ny))

FloatAddAt(x, y, e) ==
  FloatAddMag(x, y, e, BigShl(x.m, x.e - e), BigShl(y.m, y.e - e))

\* x + y
FloatAdd(x, y) ==
  IF FloatIsZero(x) THEN (IF FloatIsZero(y) THEN [y EXCEPT !.neg = x.neg /\ y.neg] ELSE y)
  ELSE IF FloatIsZero(y) THEN x
  ELSE FloatAddAt(x, y, MinInt(x.e, y.e))

\* x - y
FloatSub(x, y) == FloatAdd(x, FloatNeg(y))

\* x * y
FloatMul(x, y) ==
  FloatRound(x.neg # y.neg, BigMul(x.m, y.m), x.e + y.e, FALSE)

\* the quotient qr.q of x.m * 2^s by y.m, its remainder the sticky bit
FloatDivRound(x, y, s, qr) ==
  FloatRound(x.neg # y.neg, qr.q, x.e - y.e - s, qr.r # <<>>)

FloatDivAt(x, y, s) == FloatDivRound(x, y, s, BigDivMod(BigShl(x.m, s), y.m))

\* x / y for y # 0: the quotient of the significands carried to Precision + 3
\* bits at least, a remainder kept as the sticky bit.
FloatDiv(x, y) ==
  IF FloatIsZero(x) THEN [neg |-> x.neg # y.neg, m |-> <<>>, e |-> 0]
  ELSE FloatDivAt(x, y, MaxInt(0, Precision + 3 + BigBitLen(y.m) - BigBitLen(x.m)))

\* 0.0, 1.0 and 0.5
Zero == [neg |-> FALSE, m |-> <<>>, e |-> 0]
One  == [neg |-> FALSE, m |-> <<1>>, e |-> 0]
Half == [neg |-> FALSE, m |-> <<1>>, e |-> -1]

\* what a function call leaves when an exception ends it
Raised(name) == [raised |-> name]
IsRaised(x)  == "raised" \in DOMAIN x

\* ------------------------------------------------------------------------
\* Strategy space enumerator
\* ------------------------------------------------------------------------
RECURSIVE sum(_)
sum(xs) == IF xs = <<>> THEN 0 ELSE xs[1] + sum(Tail(xs))

RECURSIVE ConcatAll(_)
ConcatAll(ss) == IF ss = <<>> THEN <<>> ELSE ss[1] \o ConcatAll(Tail(ss))

\* range(n): 0, 1, ..., n - 1; empty for n <= 0
range(n) == [i \in 1..n |-> i - 1]

\* itertools.product(r, repeat = k): every k-tuple over r, the last
\* position advancing fastest; the one empty tuple for k = 0
RECURSIVE product(_, _)
product(r, k) ==
  IF k = 0 THEN << <<>> >>
  ELSE LET rest == product(r, k - 1)
       IN  ConcatAll([i \in 1..Len(r) |->
                        [j \in 1..Len(rest) |-> <<r[i]>> \o rest[j]]])

\* line 20 with range(units) for range(units + 1)
combos_short_range(units_, values_) == product(range(units_), Len(values_))

\* the tuples get_pure_strategies iterates over (line 20)
combos(units_, values_) == product(range(units_ + 1), Len(values_))

\* the filter of line 21
kept(combo, units_) == sum(combo) = units_

get_pure_strategies(units_, values_) ==
  SelectSeq(combos(units_, values_), LAMBDA combo: kept(combo, units_))

\* ------------------------------------------------------------------------
\* Payoff evaluator.  A strategy is a sequence whose first len(values)
\* entries are the allocations (ints, or floats holding integers, written
\* here as the integer); a mixed strategy's entry carries its probability,
\* a float, after them.
\* ------------------------------------------------------------------------
Objectives == {"score", "win", "lottery"}

\* a tie awarding the whole value
half_value_whole(v) == FloatFromInt(v)

\* values[i] / 2
half_value(v) == FloatDiv(FloatFromInt(v), FloatFromInt(2))

\* lines 41-45 with the first battlefield skipped (range(1, n))
RECURSIVE score_loop_skip_first(_, _, _, _)
score_loop_skip_first(strategy1, strategy2, values_, i) ==
  IF i <= 1 THEN Zero
  ELSE LET acc == score_loop_skip_first(strategy1, strategy2, values_, i - 1)
       IN  IF strategy1[i] > strategy2[i] THEN FloatAdd(acc, FloatFromInt(values_[i]))
           ELSE IF strategy1[i] = strategy2[i]
           THEN FloatAdd(acc, FloatDiv(FloatFromInt(values_[i]), FloatFromInt(2)))
           ELSE acc

\* lines 42-45: one battlefield, allocations a and b, value v
score_add(acc, a, b, v) ==
  IF a >= b
  THEN FloatAdd(acc, IF a > b THEN FloatFromInt(v) ELSE half_value(v))
  ELSE acc

\* lines 41-45: expected_value after battlefields 1..i
RECURSIVE score_loop(_, _, _, _)
score_loop(strategy1, strategy2, values_, i) ==
  IF i = 0 THEN Zero
  ELSE score_add(score_loop(strategy1, strategy2, values_, i - 1),
                 strategy1[i], strategy2[i], values_[i])

\* lines 49-56: [p1_score, p2_score] after battlefields 1..i
\* lines 50-56: one battlefield, allocations a and b; share is what each
\* side credited there receives (values[i], or values[i]/2 on a tie)
win_add(acc, a, b, share) ==
  [p1_score |-> IF a >= b THEN FloatAdd(acc.p1_score, share) ELSE acc.p1_score,
   p2_score |-> IF a <= b THEN FloatAdd(acc.p2_score, share) ELSE acc.p2_score]

RECURSIVE win_loop(_, _, _, _)
win_loop(strategy1, strategy2, values_, i) ==
  IF i = 0 THEN [p1_score |-> Zero, p2_score |-> Zero]
  ELSE win_add(win_loop(strategy1, strategy2, values_, i - 1),
               strategy1[i], strategy2[i],
               IF strategy1[i] = strategy2[i] THEN half_value(values_[i])
               ELSE FloatFromInt(values_[i]))

\* lines 57-62: c compares p1_score with p2_score
win_compare(c) == IF c > 0 THEN One ELSE IF c = 0 THEN Half ELSE Zero

\* lines 57-62
win_value(scores) == win_compare(FloatCmp(scores.p1_score, scores.p2_score))

\* lines 66-70 without the equal-allocations branch
prob_p1_wins_no_tie_branch(a, b) ==
  IF a * a + b * b = 0 THEN Raised("ZeroDivisionError")
  ELSE FloatDiv(FloatFromInt(a * a), FloatFromInt(a * a + b * b))

\* lines 66-70: prob_p1_wins for allocations a and b
prob_p1_wins(a, b) ==
  IF a = b THEN Half
  ELSE IF a * a + b * b = 0 THEN Raised("ZeroDivisionError")
  ELSE FloatDiv(FloatFromInt(a * a), FloatFromInt(a * a + b * b))

\* lines 65-71: expected_value after battlefields 1..i
\* line 71, an exception raised earlier or at line 70 carried through
lottery_add(acc, p, v) ==
  IF IsRaised(acc) THEN acc
  ELSE IF IsRaised(p) THEN p
  ELSE FloatAdd(acc, FloatMul(p, FloatFromInt(v)))

RECURSIVE lottery_loop(_, _, _, _)
lottery_loop(strategy1, strategy2, values_, i) ==
  IF i = 0 THEN Zero
  ELSE lottery_add(lottery_loop(strategy1, strategy2, values_, i - 1),
                   prob_p1_wins(strategy1[i], strategy2[i]), values_[i])

get_expected_value_pure_strategies(strategy1, strategy2, values_, obj_) ==
  IF obj_ = "score" THEN score_loop(strategy1, strategy2, values_, Len(values_))
  ELSE IF obj_ = "win"
  THEN win_value(win_loop(strategy1, strategy2, values_, Len(values_)))
  ELSE IF obj_ = "lottery"
  THEN lottery_loop(strategy1, strategy2, values_, Len(values_))
  ELSE Zero

\* lines 88-92, the loops flattened: the pair (a, b) for a = 1..Len(g1),
\* b = 1..Len(g2), numbered n = (a - 1) * Len(g2) + b
\* line 92, ev what line 91's call returned, an exception carried through
general_add(acc, ev, prob_of_p_strat_1, prob_of_p_strat_2) ==
  IF IsRaised(acc) THEN acc
  ELSE IF IsRaised(ev) THEN ev
  ELSE FloatAdd(acc, FloatMul(FloatMul(ev, prob_of_p_strat_1), prob_of_p_strat_2))

RECURSIVE general_loop(_, _, _, _, _)

\* lines 89-92 for one pair of support entries
general_pair(g_strategy1, g_strategy2, values_, obj_, n, pure_strategy1, pure_strategy2) ==
  general_add(general_loop(g_strategy1, g_strategy2, values_, obj_, n - 1),
              get_expected_value_pure_strategies(pure_strategy1, pure_strategy2,
                                                 values_, obj_),
              pure_strategy1[Len(values_) + 1], pure_strategy2[Len(values_) + 1])

general_loop(g_strategy1, g_strategy2, values_, obj_, n) ==
  IF n = 0 THEN Zero
  ELSE general_pair(g_strategy1, g_strategy2, values_, obj_, n,
                    g_strategy1[((n - 1) \div Len(g_strategy2)) + 1],
                    g_strategy2[((n - 1) % Len(g_strategy2)) + 1])

get_expected_value_general_strategies(g_strategy1, g_strategy2, values_, obj_) ==
  general_loop(g_strategy1, g_strategy2, values_, obj_,
               Len(g_strategy1) * Len(g_strategy2))

get_payoff_matrix(pure_strategies_, values_, obj_) ==
  [i \in 1..Len(pure_strategies_) |->
     [j \in 1..Len(pure_strategies_) |->
        get_expected_value_pure_strategies(pure_strategies_[i], pure_strategies_[j],
                                           values_, obj_)]]

\* the matrix handed on as it is
transpose_forgotten(matrix) == matrix

\* numpy.transpose of a square matrix, as lists
transpose(matrix) ==
  [i \in 1..Len(matrix) |-> [j \in 1..Len(matrix) |-> matrix[j][i]]]

\* sum(probs): 0 + probs[0] + probs[1] + ...
RECURSIVE float_sum(_)
float_sum(probs) ==
  IF probs = <<>> THEN Zero
  ELSE FloatAdd(float_sum(SubSeq(probs, 1, Len(probs) - 1)), probs[Len(probs)])

get_normalized_probability(probs) ==
  LET sum_probs       == float_sum(probs)
      multiply_factor == FloatDiv(One, sum_probs)
  IN  [i \in 1..Len(probs) |-> FloatMul(probs[i], multiply_factor)]

\* ------------------------------------------------------------------------
\* State
\* ------------------------------------------------------------------------
VARIABLES
  pc,               \* where the running call is
  units,            \* unit budget
  values,           \* battlefield values
  obj,              \* main's objective string (line 246)
  tol,              \* tolerance
  g_strategy,       \* candidate mixed strategy read for --verify
  strategy1,        \* arguments of a direct payoff evaluation
  strategy2,
  expected_value,   \* what get_expected_value_pure_strategies returned
  raised,           \* the uncaught exception, or "none"
  output,           \* lines printed so far
  pure_strategies,
  i,                \* loop counter of the running loop
  f_obj,            \* print_equilibrium_general_strategy's own obj (rebound, line 158)
  payoff_matrix_transpose,
  lhs_eq, rhs_ineq, bnd, lhs_ineq, rhs_eq,
  opt,              \* what linprog returned (x_is_none: opt.x is None)
  x_read,           \* whether opt.x has been evaluated (line 201)
  normalized_probs,
  sum_prob,
  equilibrium_expected_value,
  alt_expected_value

None == "None"

inputs  == <<units, values, obj, tol, g_strategy, strategy1, strategy2>>
lp      == <<f_obj, payoff_matrix_transpose, lhs_eq, rhs_ineq, bnd, lhs_ineq, rhs_eq>>
solved  == <<opt, x_read, normalized_probs, sum_prob>>
checked == <<equilibrium_expected_value, alt_expected_value>>
vars    == <<pc, inputs, expected_value, raised, output, pure_strategies, i,
             lp, solved, checked>>

\* everything a call has not touched yet
Untouched ==
  /\ expected_value = None /\ raised = "none" /\ output = <<>>
  /\ pure_strategies = None /\ i = 0
  /\ f_obj = None /\ payoff_matrix_transpose = None
  /\ lhs_eq = None /\ rhs_ineq = None /\ bnd = None /\ lhs_ineq = None
  /\ rhs_eq = None
  /\ opt = None /\ x_read = FALSE /\ normalized_probs = None /\ sum_prob = None
  /\ equilibrium_expected_value = None /\ alt_expected_value = None

\* ------------------------------------------------------------------------
\* Bounds of the model and the inputs drawn within them
\* ------------------------------------------------------------------------
MaxUnits == 3
MaxK == 2

\* battlefield values for K battlefields: 1,2,3,..; 1,3,1,..; 3,1,3,..
ValueVectors(K) ==
  { [k \in 1..K |-> k], [k \in 1..K |-> IF k % 2 = 1 THEN 1 ELSE 3],
    [k \in 1..K |-> IF k % 2 = 1 THEN 3 ELSE 1] }

\* ------------------------------------------------------------------------
\* get_pure_strategies, one product tuple per step
\* ------------------------------------------------------------------------
EnumInit ==
  /\ pc = "get_pure_strategies"
  /\ units \in -1..MaxUnits
  /\ \E K \in 0..MaxK : values \in ValueVectors(K)
  /\ obj = None /\ tol = None /\ g_strategy = None
  /\ strategy1 = None /\ strategy2 = None
  /\ Untouched

\* lines 17-18
get_pure_strategies_begin ==
  /\ pc = "get_pure_strategies"
  /\ pure_strategies' = <<>>
  /\ i' = 0
  /\ pc' = "product_loop"
  /\ UNCHANGED <<inputs, expected_value, raised, output, lp, solved, checked>>

\* lines 20-22, one tuple
get_pure_strategies_step ==
  /\ pc = "product_loop"
  /\ i < Len(combos(units, values))
  /\ LET combo == combos(units, values)[i + 1]
     IN  pure_strategies' = IF kept(combo, units)
                            THEN Append(pure_strategies, combo)
                            ELSE pure_strategies
  /\ i' = i + 1
  /\ UNCHANGED <<pc, inputs, expected_value, raised, output, lp, solved, checked>>

\* line 24
get_pure_strategies_return ==
  /\ pc = "product_loop"
  /\ i = Len(combos(units, values))
  /\ pc' = "returned"
  /\ UNCHANGED <<inputs, expected_value, raised, output, pure_strategies, i,
                 lp, solved, checked>>

EnumNext ==
  \/ get_pure_strategies_begin
  \/ get_pure_strategies_step
  \/ get_pure_strategies_return

SpecEnum == EnumInit /\ [][EnumNext]_vars

\* ------------------------------------------------------------------------
\* get_expected_value_pure_strategies called on two pure strategies
\* ------------------------------------------------------------------------
\* the documented example: strategies [1,2,2] and [3,2,0], values [1,2,3]
ExampleCase ==
  /\ units = 5 /\ values = <<1, 2, 3>>
  /\ strategy1 = <<1, 2, 2>> /\ strategy2 = <<3, 2, 0>>

PayoffInit ==
  /\ pc = "get_expected_value_pure_strategies"
  /\ obj \in Objectives
  /\ \/ /\ units \in 0..MaxUnits
        /\ \E K \in 1..MaxK : values \in ValueVectors(K)
        /\ \E a, b \in 1..Len(get_pure_strategies(units, values)) :
             /\ strategy1 = get_pure_strategies(units, values)[a]
             /\ strategy2 = get_pure_strategies(units, values)[b]
     \/ ExampleCase
  /\ tol = None /\ g_strategy = None
  /\ Untouched

\* lines 38-73
payoff_call ==
  /\ pc = "get_expected_value_pure_strategies"
  /\ LET ev == get_expected_value_pure_strategies(strategy1, strategy2, values, obj)
     IN  IF IsRaised(ev)
         THEN /\ raised' = ev.raised
              /\ pc' = "raised"
              /\ UNCHANGED expected_value
         ELSE /\ expected_value' = ev
              /\ pc' = "returned"
              /\ UNCHANGED raised
  /\ UNCHANGED <<inputs, output, pure_strategies, i, lp, solved, checked>>

PayoffNext == payoff_call

SpecPayoff == PayoffInit /\ [][PayoffNext]_vars

\* ------------------------------------------------------------------------
\* verify_equilibrium_general_strategy, one deviation per step
\* ------------------------------------------------------------------------
VerifyMaxUnits == 2

\* 1e-6, main's default tolerance (line 244)
DefaultTol == [neg |-> FALSE, m |-> <<28045, 16747, 7134, 134>>, e |-> -72]

Tolerances == {Zero, DefaultTol, Half}

\* one support entry: the allocations followed by the probability
Entry(strategy, prob) == Append(strategy, prob)

\* candidates over the strategies S of one budget and T of the next: every
\* pure strategy, every two neighbours of the enumeration mixed 1/2-1/2 and
\* 1/4-3/4 in either order, and a support whose entries differ in budget
Candidates(S, T) ==
  { <<Entry(S[a], One)>> : a \in 1..Len(S) }
  \cup { <<Entry(S[a], Half), Entry(S[a + 1], Half)>> : a \in 1..(Len(S) - 1) }
  \cup { <<Entry(S[a], Dyadic(1, 2)), Entry(S[a + 1], Dyadic(3, 2))>> :
           a \in 1..(Len(S) - 1) }
  \cup { <<Entry(S[a + 1], Dyadic(1, 2)), Entry(S[a], Dyadic(3, 2))>> :
           a \in 1..(Len(S) - 1) }
  \cup { <<Entry(S[1], Half), Entry(T[Len(T)], Half)>> }

VerifyInit ==
  /\ pc = "verify_equilibrium_general_strategy"
  /\ units = None
  /\ obj \in Objectives
  /\ tol \in Tolerances
  /\ \E K \in 1..MaxK : values \in ValueVectors(K)
  /\ \E N \in 0..VerifyMaxUnits :
       g_strategy \in Candidates(get_pure_strategies(N, values),
                                 get_pure_strategies(N + 1, values))
  /\ strategy1 = None /\ strategy2 = None
  /\ Untouched

\* line 223: int(sum(g_strategy[0][0:len(g_strategy[0])-1]))
inferred_units(g_strategy_) ==
  sum(SubSeq(g_strategy_[1], 1, Len(g_strategy_[1]) - 1))

\* line 230 with the tolerance left out
deviation_violates_no_tol(alt, tol_, equilibrium) == FloatLt(alt, equilibrium)

\* line 230
deviation_violates(alt, tol_, equilibrium) ==
  FloatLt(FloatAdd(alt, tol_), equilibrium)

\* line 231: str(s)[1:len(str(s))-4] is the text of s without its brackets
\* and without the ", 1" of the probability appended at line 228
violation_line(s, alt, equilibrium) ==
  [line |-> "violation", strategy |-> SubSeq(s, 1, Len(s) - 1),
   alt_expected_value |-> alt, equilibrium_expected_value |-> equilibrium]

\* lines 223-226
verify_begin ==
  /\ pc = "verify_equilibrium_general_strategy"
  /\ units' = inferred_units(g_strategy)
  /\ pure_strategies' = get_pure_strategies(inferred_units(g_strategy), values)
  /\ equilibrium_expected_value' =
       get_expected_value_general_strategies(g_strategy, g_strategy, values, obj)
  /\ i' = 0
  /\ pc' = "deviation_loop"
  /\ UNCHANGED <<values, obj, tol, g_strategy, strategy1, strategy2, expected_value,
                 raised, output, lp, solved, alt_expected_value>>

\* lines 227-232 with the return of line 232 left out
verify_step_no_return ==
  /\ pc = "deviation_loop"
  /\ i < Len(pure_strategies)
  /\ LET s   == Append(pure_strategies[i + 1], One)
         alt == get_expected_value_general_strategies(g_strategy, <<s>>, values, obj)
     IN  /\ pure_strategies' = [pure_strategies EXCEPT ![i + 1] = s]
         /\ alt_expected_value' = alt
         /\ output' = IF deviation_violates(alt, tol, equilibrium_expected_value)
                      THEN Append(output,
                                  violation_line(s, alt, equilibrium_expected_value))
                      ELSE output
         /\ i' = i + 1
         /\ UNCHANGED pc
  /\ UNCHANGED <<inputs, expected_value, raised, lp, solved,
                 equilibrium_expected_value>>

\* lines 230-232, alt what line 229's call returned
verify_compare(s, alt) ==
  /\ pure_strategies' = [pure_strategies EXCEPT ![i + 1] = s]
  /\ alt_expected_value' = alt
  /\ IF deviation_violates(alt, tol, equilibrium_expected_value)
     THEN /\ output' = Append(output,
                              violation_line(s, alt, equilibrium_expected_value))
          /\ pc' = "returned"
          /\ UNCHANGED i
     ELSE /\ i' = i + 1
          /\ UNCHANGED <<pc, output>>

\* lines 228-232 for s, the pure strategy with the probability 1 appended
verify_deviation(s) ==
  verify_compare(s, get_expected_value_general_strategies(g_strategy, <<s>>,
                                                          values, obj))

\* lines 227-232, one pure strategy s
verify_step ==
  /\ pc = "deviation_loop"
  /\ i < Len(pure_strategies)
  /\ verify_deviation(Append(pure_strategies[i + 1], One))
  /\ UNCHANGED <<inputs, expected_value, raised, lp, solved,
                 equilibrium_expected_value>>

\* line 233
verify_passed ==
  /\ pc = "deviation_loop"
  /\ i = Len(pure_strategies)
  /\ output' = Append(output, [line |-> "PASSED"])
  /\ pc' = "returned"
  /\ UNCHANGED <<inputs, expected_value, raised, pure_strategies, i, lp, solved,
                 checked>>

VerifyNext ==
  \/ verify_begin
  \/ verify_step
  \/ verify_passed

SpecVerify == VerifyInit /\ [][VerifyNext]_vars

\* ------------------------------------------------------------------------
\* print_equilibrium_general_strategy
\* ------------------------------------------------------------------------
FindMaxUnits == 2

\* 1e-12, the display threshold of line 205
DisplayThreshold == [neg |-> FALSE, m |-> <<27153, 603, 24166, 140>>, e |-> -92]

FindInit ==
  /\ pc = "print_equilibrium_general_strategy"
  /\ units \in 0..FindMaxUnits
  /\ \E K \in 1..MaxK : values \in ValueVectors(K)
  /\ obj \in Objectives
  /\ tol = DefaultTol
  /\ g_strategy = None /\ strategy1 = None /\ strategy2 = None
  /\ Untouched

\* lines 151-159; the objective is read at line 152, before line 158
\* rebinds the name obj
find_begin ==
  /\ pc = "print_equilibrium_general_strategy"
  /\ pure_strategies' = get_pure_strategies(units, values)
  /\ payoff_matrix_transpose' =
       transpose(get_payoff_matrix(get_pure_strategies(units, values), values, obj))
  /\ lhs_eq' = << <<>> >>
  /\ rhs_ineq' = <<>>
  /\ f_obj' = <<>>
  /\ bnd' = <<>>
  /\ i' = 0
  /\ pc' = "lp_loop"
  /\ UNCHANGED <<inputs, expected_value, raised, output, lhs_ineq, rhs_eq,
                 solved, checked>>

\* lines 160-171, one row
find_lp_row ==
  /\ pc = "lp_loop"
  /\ i < Len(payoff_matrix_transpose)
  /\ rhs_ineq' = Append(rhs_ineq, 0)
  /\ lhs_eq' = <<Append(lhs_eq[1], 1)>>
  /\ f_obj' = Append(f_obj, 0)
  /\ bnd' = Append(bnd, <<0, 1>>)
  /\ payoff_matrix_transpose' =
       [payoff_matrix_transpose EXCEPT
          ![i + 1] = Append([j \in 1..Len(payoff_matrix_transpose) |->
                               FloatNeg(payoff_matrix_transpose[i + 1][j])], 1)]
  /\ i' = i + 1
  /\ UNCHANGED <<pc, inputs, expected_value, raised, output, pure_strategies,
                 lhs_ineq, rhs_eq, solved, checked>>

\* lines 174-181
find_lp_finish ==
  /\ pc = "lp_loop"
  /\ i = Len(payoff_matrix_transpose)
  /\ lhs_eq' = <<Append(lhs_eq[1], 0)>>
  /\ bnd' = Append(bnd, <<0, "inf">>)
  /\ lhs_ineq' = payoff_matrix_transpose
  /\ rhs_eq' = <<1>>
  /\ f_obj' = Append(f_obj, -1)
  /\ pc' = "linprog"
  /\ UNCHANGED <<inputs, expected_value, raised, output, pure_strategies, i,
                 payoff_matrix_transpose, rhs_ineq, solved, checked>>

\* What linprog may return for n pure strategies.  With status optimal, x
\* holds n probabilities and z: one strategy alone, two neighbours sharing
\* the mass, the same with the sum off by 2^-33, and a strategy left with a
\* residue of 2^-44.  Without a solution x is None.
Unit(n, a, p, q) ==
  [k \in 1..(n + 1) |-> IF k = a THEN p ELSE IF k = a + 1 /\ k <= n THEN q
                        ELSE IF k = n + 1 THEN Half ELSE Zero]

SolverVectors(n) ==
  { Unit(n, a, One, Zero) : a \in 1..n }
  \cup { Unit(n, a, Half, Half) : a \in 1..(n - 1) }
  \cup { Unit(n, a, Half, FloatAdd(Half, Dyadic(1, 33))) : a \in 1..(n - 1) }
  \cup { Unit(n, a, One, Dyadic(1, 44)) : a \in 1..(n - 1) }

\* lines 190-197
find_solve ==
  /\ pc = "linprog"
  /\ \/ \E v \in SolverVectors(Len(pure_strategies)) :
          opt' = [status |-> "optimal", x_is_none |-> FALSE, x |-> v]
     \/ \E st \in {"iteration_limit", "infeasible", "unbounded"} :
          opt' = [status |-> st, x_is_none |-> TRUE, x |-> None]
     \/ opt' = [status |-> "iteration_limit", x_is_none |-> FALSE,
                x |-> Unit(Len(pure_strategies), 1, One, Zero)]
  /\ pc' = "normalize"
  /\ UNCHANGED <<inputs, expected_value, raised, output, pure_strategies, i, lp,
                 x_read, normalized_probs, sum_prob, checked>>

\* lines 201-203; len(None) raises TypeError
find_normalize ==
  /\ pc = "normalize"
  /\ x_read' = TRUE
  /\ IF opt.x_is_none
     THEN /\ raised' = "TypeError"
          /\ pc' = "raised"
          /\ UNCHANGED <<normalized_probs, sum_prob, i>>
     ELSE /\ normalized_probs' =
               get_normalized_probability(SubSeq(opt.x, 1, Len(opt.x) - 1))
          /\ sum_prob' = Zero
          /\ i' = 0
          /\ pc' = "print_loop"
          /\ UNCHANGED raised
  /\ UNCHANGED <<inputs, expected_value, output, pure_strategies, lp, opt, checked>>

\* line 205
near_zero(p) == FloatLe(FloatAbs(FloatSub(p, Zero)), DisplayThreshold)

\* lines 207-212: the allocations, comma-separated, then the probability
output_row(strategy, prob) ==
  [line |-> "row", allocations |-> strategy, prob |-> prob]

\* lines 204-212, one pure strategy
find_print_row ==
  /\ pc = "print_loop"
  /\ i < Len(pure_strategies)
  /\ IF near_zero(normalized_probs[i + 1])
     THEN UNCHANGED <<output, sum_prob>>
     ELSE /\ output' = Append(output, output_row(pure_strategies[i + 1],
                                                 normalized_probs[i + 1]))
          /\ sum_prob' = FloatAdd(sum_prob, normalized_probs[i + 1])
  /\ i' = i + 1
  /\ UNCHANGED <<pc, inputs, expected_value, raised, pure_strategies, lp, opt,
                 x_read, normalized_probs, checked>>

\* the end of the function, after line 212
find_return ==
  /\ pc = "print_loop"
  /\ i = Len(pure_strategies)
  /\ pc' = "returned"
  /\ UNCHANGED <<inputs, expected_value, raised, output, pure_strategies, i, lp,
                 solved, checked>>

FindNext ==
  \/ find_begin
  \/ find_lp_row
  \/ find_lp_finish
  \/ find_solve
  \/ find_normalize
  \/ find_print_row
  \/ find_return

SpecFind == FindInit /\ [][FindNext]_vars

\* ------------------------------------------------------------------------
\* Properties of the enumerator
\* ------------------------------------------------------------------------
RECURSIVE Binomial(_, _)
Binomial(n, k) ==
  IF k = 0 \/ k = n THEN 1
  ELSE IF k < 0 \/ k > n THEN 0
  ELSE Binomial(n - 1, k - 1) + Binomial(n - 1, k)

NoDuplicates(xs) == \A a, b \in 1..Len(xs) : xs[a] = xs[b] => a = b

\* C1: for N >= 0 and K >= 1 the enumerator returns exactly C(N+K-1, K-1)
\* sequences, without duplicates, each of length K, of entries >= 0, summing
\* to N.
C1_StrategySpace ==
  (pc = "returned" /\ units >= 0 /\ Len(values) >= 1) =>
    /\ Len(pure_strategies) = Binomial(units + Len(values) - 1, Len(values) - 1)
    /\ NoDuplicates(pure_strategies)
    /\ \A a \in 1..Len(pure_strategies) :
         /\ Len(pure_strategies[a]) = Len(values)
         /\ \A k \in 1..Len(values) : pure_strategies[a][k] >= 0
         /\ sum(pure_strategies[a]) = units

C1_Witness ==
  /\ pc = "returned" /\ units = MaxUnits /\ Len(values) = MaxK
  /\ Len(pure_strategies) > 1

\* C6: with N < 0 or K < 1 the enumerator fails with InvalidInput: it runs
\* no part of the enumeration and returns no list.
C6_InvalidInput ==
  (units < 0 \/ Len(values) < 1) =>
    /\ pc \in {"get_pure_strategies", "raised"}
    /\ pc = "raised" => raised = "InvalidInput"

\* ------------------------------------------------------------------------
\* Properties of the payoff evaluator
\* ------------------------------------------------------------------------
\* payoff(s1, s2) + payoff(s2, s1), added as floats
PayoffSum ==
  FloatAdd(expected_value,
           get_expected_value_pure_strategies(strategy2, strategy1, values, obj))

\* n / 2^53 for an int n >= 0
Ulps(n) == Dyadic(n, Precision)

\* C2 as stated: the two payoffs add up to exactly sum(values) under score
\* and under lottery, and to exactly 1 under win.
C2_ZeroSumExact ==
  pc = "returned" =>
    /\ obj \in {"score", "lottery"} => FloatEq(PayoffSum, FloatFromInt(sum(values)))
    /\ obj = "win" => FloatEq(PayoffSum, One)

\* C2 amended: exactly sum(values) under score and exactly 1 under win;
\* under lottery within (K + 3) * sum(values) * 2^-53 of sum(values).
C2_ZeroSum ==
  pc = "returned" =>
    /\ obj = "score" => FloatEq(PayoffSum, FloatFromInt(sum(values)))
    /\ obj = "win" => FloatEq(PayoffSum, One)
    /\ obj = "lottery" =>
         FloatLe(FloatAbs(FloatSub(PayoffSum, FloatFromInt(sum(values)))),
                 Ulps((Len(values) + 3) * sum(values)))

\* a lottery evaluation whose two payoffs do not add up to sum(values)
C2_Witness ==
  /\ pc = "returned" /\ obj = "lottery"
  /\ ~FloatEq(PayoffSum, FloatFromInt(sum(values)))

\* the probability the lottery rule gives player 1 on one battlefield
LotteryRule(a, b) ==
  IF a = 0 /\ b = 0 THEN Half
  ELSE FloatDiv(FloatFromInt(a * a), FloatFromInt(a * a + b * b))

RECURSIVE LotteryRuleSum(_, _, _, _)
LotteryRuleSum(s1, s2, v, k) ==
  IF k = 0 THEN Zero
  ELSE FloatAdd(LotteryRuleSum(s1, s2, v, k - 1),
                FloatMul(LotteryRule(s1[k], s2[k]), FloatFromInt(v[k])))

\* C5: under lottery no division by zero occurs, each battlefield is
\* credited s1^2/(s1^2+s2^2), or 1/2 when both allocations are zero, and the
\* result is the sum of probability times value.
C5_Lottery ==
  (obj = "lottery" /\ pc # "get_expected_value_pure_strategies") =>
    /\ pc = "returned" /\ raised = "none"
    /\ \A k \in 1..Len(values) :
         prob_p1_wins(strategy1[k], strategy2[k])
           = LotteryRule(strategy1[k], strategy2[k])
    /\ expected_value = LotteryRuleSum(strategy1, strategy2, values, Len(values))

\* a lottery evaluation with a battlefield both left empty and one tied
\* above zero
C5_Witness ==
  /\ pc = "returned" /\ obj = "lottery"
  /\ \E k \in 1..Len(values) : strategy1[k] = 0 /\ strategy2[k] = 0
  /\ \E k \in 1..Len(values) : strategy1[k] = strategy2[k] /\ strategy1[k] > 0

\* twice the score the rule awards: the whole value to the strictly larger
\* allocation, half of it to each side of a tie
RECURSIVE TwiceScoreRule(_, _, _, _)
TwiceScoreRule(s1, s2, v, k) ==
  IF k = 0 THEN 0
  ELSE TwiceScoreRule(s1, s2, v, k - 1)
       + (IF s1[k] > s2[k] THEN 2 * v[k] ELSE IF s1[k] = s2[k] THEN v[k] ELSE 0)

\* C9 as stated: the documented example evaluates to 2.5 under score.
C9_ExampleIs2_5 ==
  (pc = "returned" /\ obj = "score" /\ ExampleCase) =>
    FloatEq(expected_value, Dyadic(5, 1))

\* C9 amended: score is the sum of the values won plus half of the values
\* tied, and the documented example evaluates to 4.0.
C9_Example ==
  (pc = "returned" /\ obj = "score") =>
    /\ FloatEq(expected_value,
               Dyadic(TwiceScoreRule(strategy1, strategy2, values, Len(values)), 1))
    /\ ExampleCase => FloatEq(expected_value, FloatFromInt(4))

C9_Witness == pc = "returned" /\ obj = "score" /\ ExampleCase

\* ------------------------------------------------------------------------
\* Properties of the verifier
\* ------------------------------------------------------------------------
\* the strategy space for the budget of the candidate's first support entry
Deviations == get_pure_strategies(inferred_units(g_strategy), values)

\* payoff(candidate, s) for the j-th strategy s of that space
DeviationPayoff(j) ==
  get_expected_value_general_strategies(g_strategy, <<Entry(Deviations[j], One)>>,
                                        values, obj)

\* E* = payoff(candidate, candidate)
SelfPlay == get_expected_value_general_strategies(g_strategy, g_strategy, values, obj)

\* payoff(candidate, s) is not less than E* - tol
WithinBound(j) == ~FloatLt(DeviationPayoff(j), FloatSub(SelfPlay, tol))

\* C3: the verifier prints PASSED if and only if every pure strategy of the
\* space keeps payoff(candidate, s) >= E* - tol; otherwise it prints a
\* violation; it never prints both.
C3_PassIffNoDeviation ==
  pc = "returned" =>
    /\ Len(output) = 1
    /\ output[1].line \in {"PASSED", "violation"}
    /\ output[1].line = "PASSED" <=> \A j \in 1..Len(Deviations) : WithinBound(j)

\* a mixed candidate that passes only thanks to the tolerance
C3_Witness ==
  /\ pc = "returned" /\ output = <<[line |-> "PASSED"]>>
  /\ Len(g_strategy) = 2
  /\ \E j \in 1..Len(Deviations) : FloatLt(DeviationPayoff(j), SelfPlay)

\* C4: a reported violation names the first strategy of the enumeration
\* below E* - tol: none before it is below, it is the only line printed,
\* no later strategy has been examined, and the values printed are its
\* payoff and E*.
C4_FirstViolation ==
  (pc = "returned" /\ output # <<>> /\ output[1].line = "violation") =>
    \E j \in 1..Len(Deviations) :
      /\ output[1].strategy = Deviations[j]
      /\ ~WithinBound(j)
      /\ \A k \in 1..(j - 1) : WithinBound(k)
      /\ Len(output) = 1
      /\ \A k \in (j + 1)..Len(pure_strategies) :
           pure_strategies[k] = Deviations[k]
      /\ output[1].alt_expected_value = DeviationPayoff(j)
      /\ output[1].equilibrium_expected_value = SelfPlay

\* a violation reported after a strategy that passed and before another
\* that would have violated too
C4_Witness ==
  /\ pc = "returned" /\ output # <<>> /\ output[1].line = "violation"
  /\ i >= 1
  /\ \E k \in (i + 2)..Len(Deviations) : ~WithinBound(k)

\* ------------------------------------------------------------------------
\* Properties of the Find operation
\* ------------------------------------------------------------------------
\* linprog has returned
Solved == pc \in {"normalize", "print_loop", "returned", "raised"}

\* C7: when linprog returns a status other than optimal, Find ends in an
\* Infeasible/SolverError outcome taken from that status: it prints no
\* mixed strategy and neither reads nor normalizes a solution vector.
C7_SolverFailureSurfaced ==
  (Solved /\ opt.status # "optimal") =>
    /\ ~x_read
    /\ output = <<>>
    /\ pc \in {"normalize", "raised"}
    /\ pc = "raised" => raised \in {"Infeasible", "SolverError"}

\* the lines Find is to print for the strategies k..n
RECURSIVE SupportRows(_)
SupportRows(k) ==
  IF k > Len(pure_strategies) THEN <<>>
  ELSE IF near_zero(normalized_probs[k]) THEN SupportRows(k + 1)
  ELSE <<output_row(pure_strategies[k], normalized_probs[k])>> \o SupportRows(k + 1)

RECURSIVE PrintedSum(_)
PrintedSum(rows) ==
  IF rows = <<>> THEN Zero
  ELSE FloatAdd(PrintedSum(SubSeq(rows, 1, Len(rows) - 1)), rows[Len(rows)].prob)

\* C8: Find prints, in strategy-space order, one line per strategy whose
\* normalized probability is not near zero, then one last line with the sum
\* of the printed probabilities.
C8_OutputEndsWithSum ==
  (pc = "returned" /\ x_read) =>
    output = SupportRows(1) \o <<[line |-> "sum", value |-> PrintedSum(SupportRows(1))]>>

\* C10: the linear program handed to linprog for the n x n payoff matrix M
\* has n + 1 variables: costs 0 for every x_i and -1 for z; n inequality
\* rows, row j holding -M[i][j] for x_i and 1 for z, right-hand sides 0; one
\* equality row of 1 for every x_i and 0 for z, right-hand side 1; bounds
\* [0, 1] for every x_i and [0, inf) for z.
C10_LinearProgram ==
  pc = "linprog" =>
    LET n == Len(pure_strategies)
        M == get_payoff_matrix(pure_strategies, values, obj)
    IN  /\ f_obj = [k \in 1..(n + 1) |-> IF k <= n THEN 0 ELSE -1]
        /\ Len(lhs_ineq) = n
        /\ \A j \in 1..n :
             /\ Len(lhs_ineq[j]) = n + 1
             /\ \A k \in 1..n : FloatEq(lhs_ineq[j][k], FloatNeg(M[k][j]))
             /\ lhs_ineq[j][n + 1] = 1
        /\ rhs_ineq = [j \in 1..n |-> 0]
        /\ lhs_eq = <<[k \in 1..(n + 1) |-> IF k <= n THEN 1 ELSE 0]>>
        /\ rhs_eq = <<1>>
        /\ bnd = [k \in 1..(n + 1) |-> IF k <= n THEN <<0, 1>> ELSE <<0, "inf">>]

\* a program built from a payoff matrix that is not symmetric
C10_Witness ==
  /\ pc = "linprog"
  /\ Len(pure_strategies) >= 3
  /\ \E j, k \in 1..Len(pure_strategies) :
       ~FloatEq(lhs_ineq[j][k], lhs_ineq[k][j])

====
